---- MODULE Spec2Model ----
(***************************************************************************)
(* A model of reddit-image-downloader: the crawl loop of crawlddit.py      *)
(* (get_all_posts and the page extraction), its pure helpers               *)
(* (known_file_format, get_image_filename, known_domain, the resolver,     *)
(* get_image) and download_files of utils/downloader.py.                   *)
(*                                                                         *)
(* Strings are sequences of tokens.  A token is one character ("a", "/")   *)
(* or a whole word that the code searches for as a substring (a file       *)
(* extension of FILE_FORMATS, a domain of DOMAINS); no such word can       *)
(* arise across token borders, so `w in s` is "some token of s is w".      *)
(* A Python value is a record [kind, val]: kind "None", "str", or the      *)
(* name of the exception that the call raised instead of returning.        *)
(***************************************************************************)
EXTENDS Integers, Sequences, FiniteSets, TLC

VARIABLES
    \* ---- get_all_posts (crawlddit.py) ----
    pc,         \* "idle", "main", "call", "loop", "page", "returned", "raised"
    argP,       \* args.p as parsed from the command line (an int or None)
    pages,      \* parameter pages of get_all_posts
    url,        \* local url: the page to fetch next (a Python value)
    page,       \* local page: the page counter
    crawl,      \* local crawl
    images,     \* local images: the deque of post records
    soup,       \* the document of the page fetched last
    driver,     \* the PhantomJS session: "none", "open", "closed"
    exc,        \* the exception that ended the crawl, "" if none
    fetched,    \* history: the URLs handed to driver.get, in order
    docs,       \* history: the documents obtained from them, in order
    closes,     \* history: the number of driver.close() calls
    usedClosed, \* history: driver.get was called on a closed driver
    \* ---- the pure helpers, called on their own ----
    fnPc,       \* "idle", "call", "done"
    fnName,     \* the function called
    fnUrl,      \* argument url
    fnDomain,   \* argument domain (resolver only)
    fnWeb,      \* what urlopen(url) meets: the answer of the gfycat page
    fnOut,      \* the value returned, or the exception raised
    \* ---- download_files (utils/downloader.py) ----
    dlPc,       \* "off", "call", "db_path", "raised"
    files,      \* parameter files: the deque of post records
    filesIn,    \* history: files as passed in
    store,      \* PostUrls marked Downloaded in db.sqlite of the destination
    storeIn,    \* history: store when the run began
    transfers,  \* history: the post URLs transferred, in order
    cwd,        \* the process's working directory: "origin" or "destination"
    dlExc       \* the exception that ended download_files, "" if none

crawlVars == <<pc, argP, pages, url, page, crawl, images, soup, driver, exc,
               fetched, docs, closes, usedClosed>>
fnVars == <<fnPc, fnName, fnUrl, fnDomain, fnWeb, fnOut>>
dlVars == <<dlPc, files, filesIn, store, storeIn, transfers, cwd, dlExc>>
vars == <<crawlVars, fnVars, dlVars>>

(***************************************************************************)
(* Bounds of the model.                                                    *)
(***************************************************************************)
MaxUrlLen == 3      \* tokens in a URL handed to a helper
MaxChain == 3       \* listing pages in a chain of next-page links
MaxPagesArg == 2    \* largest -p value
MaxNegPages == 1    \* smallest -p value is -MaxNegPages
MaxFiles == 2       \* records in the deque handed to download_files

(***************************************************************************)
(* Python values.                                                          *)
(***************************************************************************)
None == [kind |-> "None", val |-> <<>>]
Str(s) == [kind |-> "str", val |-> s]
Raised(e) == [kind |-> e, val |-> <<>>]
IsNone(v) == v.kind = "None"
IsStr(v) == v.kind = "str"
IsRaised(v) == v.kind \notin {"None", "str", "dict"}
\* Python truth value of None or of a string: `if v`, `if not v`
Truthy(v) == IsStr(v) /\ Len(v.val) > 0

FILE_FORMATS == <<".jpg", ".jpeg", ".png", ".gif", ".webm">>
DOMAINS == <<"reddit", "imgur", "gfycat", "tumblr", "blogspot">>

\* `w in s` for a word w and a string s
Contains(s, w) == \E i \in 1..Len(s) : s[i] = w

\* for x in list: if x in url: return x ... return None
FirstIn(list, s) ==
    LET hits == {i \in 1..Len(list) : Contains(s, list[i])}
    IN IF hits = {} THEN None
       ELSE Str(<<list[CHOOSE i \in hits : \A j \in hits : i <= j]>>)

known_file_format(u) == FirstIn(FILE_FORMATS, u)
known_domain(u) == FirstIn(DOMAINS, u)

\* url.split('/')[-1]: what follows the last '/', the whole string if none
LastSegment(s) ==
    LET slashes == {i \in 1..Len(s) : s[i] = "/"}
    IN IF slashes = {} THEN s
       ELSE SubSeq(s, (CHOOSE i \in slashes : \A j \in slashes : j <= i) + 1, Len(s))

\* the ends of the prefixes of candidate that '.+' followed by the literal
\* extension can match: one character at least, then the extension
MatchEnds(candidate, ext) == {j \in 2..Len(candidate) : candidate[j] = ext}

\* re.match('.+\<ext>', candidate): '.+' is greedy, so of the prefixes that
\* match the longest wins; no prefix matches: None
GreedyEnd(ends) == CHOOSE j \in ends : \A k \in ends : k <= j
re_match(candidate, ext) ==
    LET ends == MatchEnds(candidate, ext)
    IN IF ends = {} THEN None ELSE Str(SubSeq(candidate, 1, GreedyEnd(ends)))

get_image_filename(u) ==
    LET candidate == LastSegment(u)
        extension == known_file_format(u)
    IN IF IsNone(extension) THEN Raised("TypeError")       \* ''.join(['.+\\', None])
       ELSE LET m == re_match(candidate, extension.val[1])
            IN IF IsNone(m) THEN Raised("AttributeError")  \* None.group(0)
               ELSE m

(***************************************************************************)
(* The web as the resolver meets it: what urlopen(url) gives for the page  *)
(* of a post.  status "down": urlopen raises URLError; otherwise src is    *)
(* the src of <source id="webmSource">, None if the page has none.         *)
(***************************************************************************)
WebDown == [status |-> "down", src |-> None]
WebPage(src) == [status |-> "ok", src |-> src]

\* make_soup(url) with selenium=False: BeautifulSoup(urlopen(url).read(), parser)
make_soup(u, web) == IF web.status = "down" THEN Raised("URLError") ELSE Str(<<"soup">>)

parse_gfycat(u, web) ==
    LET s == make_soup(u, web)
    IN IF IsRaised(s) THEN s ELSE web.src     \* source['src'] if source else None

get_image_link_from_allowed_domain(u, domain, web) ==
    IF IsStr(domain) /\ domain.val = <<"gfycat">> THEN parse_gfycat(u, web) ELSE None

image_dictionary(u, filename) ==
    [kind |-> "dict", val |-> [image_url |-> u, filename |-> filename]]

\* image_dictionary(image_url, get_image_filename(image_url)), the filename
\* f computed: an exception raised by get_image_filename leaves get_image
WithFilename(image_url, f) == IF IsRaised(f) THEN f ELSE image_dictionary(image_url, f)

\* filename = get_image_filename(image_url) if image_url else None, for the
\* image_url the resolver gave (or the exception it raised)
Resolved(image_url) ==
    IF IsRaised(image_url) THEN image_url
    ELSE IF ~Truthy(image_url) THEN image_dictionary(image_url, None)
    ELSE WithFilename(image_url, get_image_filename(image_url.val))

\* get_image on the post URL that get_post_url(div) returned
GetImageOfUrl(u, web) ==
    IF ~IsNone(known_file_format(u))
    THEN WithFilename(Str(u), get_image_filename(u))
    ELSE Resolved(get_image_link_from_allowed_domain(u, known_domain(u), web))

(***************************************************************************)
(* A post container (div): href is the href of <p class="title"><a>, None  *)
(* if the container has no such <p>; comments is the href of               *)
(* <li class="first"><a>, None if the container has no such <li>; web is   *)
(* what urlopen meets at the post's URL.  The domain label, the title text *)
(* and the <time> element are present in every container drawn here.       *)
(***************************************************************************)
get_post_url(div) == IF IsNone(div.href) THEN Raised("AttributeError") ELSE div.href
get_post_title(div) == IF IsNone(div.href) THEN Raised("AttributeError") ELSE Str(div.post_title)
get_link_to_comments(div) ==
    IF IsNone(div.comments) THEN Raised("AttributeError") ELSE div.comments

get_image(div) ==
    LET u == get_post_url(div)
    IN IF IsRaised(u) THEN u ELSE GetImageOfUrl(u.val, div.web)

\* the dict of one container, its entries evaluated in the order written
\* (u the 'url' entry, img 'image', t 'post_title', c 'link_to_comments'):
\* the first call that raises ends the evaluation
DictOf(u, img, t, c, pageUrl) ==
    IF IsRaised(u) THEN u
    ELSE IF IsRaised(img) THEN img
    ELSE IF IsRaised(t) THEN t
    ELSE IF IsRaised(c) THEN c
    ELSE [kind |-> "dict",
          val |-> [url |-> u.val, image |-> img.val, post_title |-> t.val,
                   link_to_comments |-> c.val, on_page |-> pageUrl,
                   html_status_token |-> 0]]
PostDict(div, pageUrl) ==
    DictOf(get_post_url(div), get_image(div), get_post_title(div),
           get_link_to_comments(div), pageUrl)

\* deque(<dict> for div in things): the records in document order; the first
\* container whose dict raises ends the whole construction
DequeOf(dicts) ==
    LET bad == {j \in 1..Len(dicts) : IsRaised(dicts[j])}
    IN IF bad = {} THEN [kind |-> "ok", val |-> [j \in 1..Len(dicts) |-> dicts[j].val]]
       ELSE [kind |-> dicts[CHOOSE j \in bad : \A k \in bad : j <= k].kind, val |-> <<>>]
DictsOf(things, pageUrl) ==
    DequeOf([j \in 1..Len(things) |-> PostDict(things[j], pageUrl)])

\* next_page_span.a['href'] if next_page_span else None.  The next button of
\* a document is [span, href]: span FALSE is no <span class="next-button">,
\* otherwise href is the href of the link in the span.
NextPageOf(button) == IF ~button.span THEN None ELSE Str(button.href)

\* return (images, next_page), unless building images raised
PageResult(ds, np) ==
    IF ds.kind # "ok" THEN [kind |-> ds.kind, images |-> <<>>, next_page |-> None]
    ELSE [kind |-> "ok", images |-> ds.val, next_page |-> np]
get_files_from_a_page(doc, pageUrl) ==
    PageResult(DictsOf(doc.things, pageUrl), NextPageOf(doc.next_button))

(***************************************************************************)
(* The inputs.                                                             *)
(***************************************************************************)
\* all sequences over S of length n, and of length at most n
RECURSIVE SeqsOfLen(_, _)
SeqsOfLen(S, n) ==
    IF n = 0 THEN {<<>>}
    ELSE {Append(q, x) : q \in SeqsOfLen(S, n - 1), x \in S}
SeqsUpTo(S, n) == UNION {SeqsOfLen(S, k) : k \in 0..n}

UrlTokens == {"a", "/", ".jpg", ".jpeg", ".png", "gfycat", "reddit"}
Urls == SeqsUpTo(UrlTokens, MaxUrlLen)
DomainTags == {Str(<<DOMAINS[i]>>) : i \in 1..Len(DOMAINS)} \cup {None, Str(<<"flickr">>)}
WebAnswers == {WebDown, WebPage(None), WebPage(Str(<<>>)),
               WebPage(Str(<<"a", "/", "a", ".webm">>)), WebPage(Str(<<"a", "/", "a">>))}

\* post containers: a direct .png, a post of an unknown domain, a gfycat
\* post whose page gives a direct .webm, a gfycat post whose page cannot be
\* fetched, a container with no comments link, a container with no title link
DivPng == [href |-> Str(<<"a", "/", "a", ".png">>), post_title |-> <<"png">>,
           comments |-> Str(<<"c", "/", "png">>), web |-> WebPage(None)]
DivUnknown == [href |-> Str(<<"a", "/", "a">>), post_title |-> <<"unknown">>,
               comments |-> Str(<<"c", "/", "unknown">>), web |-> WebPage(None)]
DivGfycat == [href |-> Str(<<"gfycat", "/", "a">>), post_title |-> <<"gfy">>,
              comments |-> Str(<<"c", "/", "gfy">>),
              web |-> WebPage(Str(<<"a", "/", "a", ".webm">>))]
DivGfycatDown == [href |-> Str(<<"gfycat", "/", "b">>), post_title |-> <<"gfydown">>,
                  comments |-> Str(<<"c", "/", "gfydown">>), web |-> WebDown]
DivNoComments == [href |-> Str(<<"a", "/", "b", ".png">>), post_title |-> <<"nocomments">>,
                  comments |-> None, web |-> WebPage(None)]
DivNoTitle == [href |-> None, post_title |-> <<>>,
               comments |-> Str(<<"c", "/", "notitle">>), web |-> WebPage(None)]

\* the post containers of a listing page, in document order
PageThings == {<<>>, <<DivPng>>, <<DivUnknown>>, <<DivPng, DivUnknown, DivGfycat>>,
               <<DivPng, DivNoComments, DivUnknown>>, <<DivNoComments>>,
               <<DivGfycatDown, DivPng>>, <<DivUnknown, DivNoTitle>>}

\* The next button of the k-th page of a chain: none, one with an empty
\* href, or the link to page k + 1 (a chain has MaxChain pages at most: its
\* last page links no further).
NoButton == [span |-> FALSE, href |-> <<>>]
NextButtons(k) ==
    {NoButton, [span |-> TRUE, href |-> <<>>]}
    \cup (IF k < MaxChain THEN {[span |-> TRUE, href |-> <<k + 1>>]} ELSE {})
PageDocs(k) == {[things |-> t, next_button |-> b] : t \in PageThings, b \in NextButtons(k)}

StartUrl == Str(<<1>>)
NoSoup == [things |-> <<>>, next_button |-> NoButton]
IntArg(n) == [kind |-> "int", n |-> n]
NoArg == [kind |-> "None", n |-> 0]
PArgs == {NoArg} \cup {IntArg(n) : n \in (0 - MaxNegPages)..MaxPagesArg}

crawlIdle ==
    /\ pc = "idle" /\ argP = NoArg /\ pages = 0 /\ url = None /\ page = 0
    /\ crawl = FALSE /\ images = <<>> /\ soup = NoSoup /\ driver = "none"
    /\ exc = "" /\ fetched = <<>> /\ docs = <<>> /\ closes = 0 /\ usedClosed = FALSE
fnIdle ==
    /\ fnPc = "idle" /\ fnName = "" /\ fnUrl = <<>> /\ fnDomain = None
    /\ fnWeb = WebDown /\ fnOut = None
dlIdle ==
    /\ dlPc = "off" /\ files = <<>> /\ filesIn = <<>> /\ store = {} /\ storeIn = {}
    /\ transfers = <<>> /\ cwd = "origin" /\ dlExc = ""

(***************************************************************************)
(* crawlddit.py run as a program: __main__ and get_all_posts.              *)
(***************************************************************************)
Init ==
    /\ pc = "main" /\ argP \in PArgs /\ pages = 0 /\ url = StartUrl /\ page = 0
    /\ crawl = FALSE /\ images = <<>> /\ soup = NoSoup /\ driver = "none"
    /\ exc = "" /\ fetched = <<>> /\ docs = <<>> /\ closes = 0 /\ usedClosed = FALSE
    /\ fnIdle /\ dlIdle

\* if not pages: pages = 0
Main ==
    /\ pc = "main"
    /\ pages' = IF argP.kind = "None" \/ argP.n = 0 THEN 0 ELSE argP.n
    /\ pc' = "call"
    /\ UNCHANGED <<argP, url, page, crawl, images, soup, driver, exc, fetched, docs,
                   closes, usedClosed>>

\* page = 1 if pages else 0
InitPageZero(n) == 0
InitPage(n) == IF n # 0 THEN 1 ELSE 0

\* while (page <= pages) and crawl
LoopGuardNegUnbounded(pg, n, c) == (n < 0 \/ pg <= n) /\ c
LoopGuard(pg, n, c) == (pg <= n) /\ c

\* images.extend(pictures)
ExtendLeft(q, pictures) == pictures \o q
Extend(q, pictures) == q \o pictures

Call ==
    /\ pc = "call"
    /\ driver' = "open"
    /\ images' = <<>>
    /\ crawl' = TRUE
    /\ page' = InitPage(pages)
    /\ pc' = "loop"
    /\ UNCHANGED <<argP, pages, url, soup, exc, fetched, docs, closes, usedClosed>>

\* the loop test holds and make_beautiful_soup(url, driver) returns a soup
Fetch ==
    /\ pc = "loop"
    /\ LoopGuard(page, pages, crawl)
    /\ \E doc \in PageDocs(Len(fetched) + 1) :
          /\ soup' = doc
          /\ docs' = Append(docs, doc)
    /\ fetched' = Append(fetched, url)
    /\ usedClosed' = (usedClosed \/ driver # "open")
    /\ pc' = "page"
    /\ UNCHANGED <<argP, pages, url, page, crawl, images, driver, exc, closes>>

\* the loop test holds and driver.get(url) raises
FetchRaises ==
    /\ pc = "loop"
    /\ LoopGuard(page, pages, crawl)
    /\ fetched' = Append(fetched, url)
    /\ usedClosed' = (usedClosed \/ driver # "open")
    /\ exc' = "WebDriverException"
    /\ pc' = "raised"
    /\ UNCHANGED <<argP, pages, url, page, crawl, images, soup, driver, docs, closes>>

\* the rest of the loop body, get_files_from_a_page having returned
Extract ==
    /\ pc = "page"
    /\ \E r \in {get_files_from_a_page(soup, url.val)} :
          /\ r.kind = "ok"
          /\ images' = Extend(images, r.images)
          /\ url' = r.next_page
          /\ page' = IF pages # 0 THEN page + 1 ELSE page
          /\ crawl' = IF ~Truthy(r.next_page) THEN FALSE ELSE crawl
    /\ pc' = "loop"
    /\ UNCHANGED <<argP, pages, soup, driver, exc, fetched, docs, closes, usedClosed>>

\* get_files_from_a_page raises: the exception leaves get_all_posts
ExtractRaises ==
    /\ pc = "page"
    /\ \E r \in {get_files_from_a_page(soup, url.val)} :
          /\ r.kind # "ok"
          /\ exc' = r.kind
    /\ pc' = "raised"
    /\ UNCHANGED <<argP, pages, url, page, crawl, images, soup, driver, fetched, docs,
                   closes, usedClosed>>

\* the loop test fails: driver.close(); return images
Return ==
    /\ pc = "loop"
    /\ ~LoopGuard(page, pages, crawl)
    /\ driver' = "closed"
    /\ closes' = closes + 1
    /\ pc' = "returned"
    /\ UNCHANGED <<argP, pages, url, page, crawl, images, soup, exc, fetched, docs,
                   usedClosed>>

Next ==
    \/ Main /\ UNCHANGED <<fnVars, dlVars>>
    \/ Call /\ UNCHANGED <<fnVars, dlVars>>
    \/ Fetch /\ UNCHANGED <<fnVars, dlVars>>
    \/ FetchRaises /\ UNCHANGED <<fnVars, dlVars>>
    \/ Extract /\ UNCHANGED <<fnVars, dlVars>>
    \/ ExtractRaises /\ UNCHANGED <<fnVars, dlVars>>
    \/ Return /\ UNCHANGED <<fnVars, dlVars>>

Spec == Init /\ [][Next]_vars

(***************************************************************************)
(* The helpers called on their own, on every URL of the bounded set.       *)
(***************************************************************************)
InitImage ==
    /\ fnPc = "call" /\ fnName = "" /\ fnUrl \in Urls /\ fnDomain \in DomainTags
    /\ fnWeb \in WebAnswers /\ fnOut = None
    /\ crawlIdle /\ dlIdle

CallGetImageFilename ==
    /\ fnPc = "call"
    /\ fnName' = "get_image_filename"
    /\ fnOut' = get_image_filename(fnUrl)
    /\ fnPc' = "done"
    /\ UNCHANGED <<fnUrl, fnDomain, fnWeb>>

CallResolver ==
    /\ fnPc = "call"
    /\ fnName' = "get_image_link_from_allowed_domain"
    /\ fnOut' = get_image_link_from_allowed_domain(fnUrl, fnDomain, fnWeb)
    /\ fnPc' = "done"
    /\ UNCHANGED <<fnUrl, fnDomain, fnWeb>>

\* get_image on a container whose title link is fnUrl
CallGetImage ==
    /\ fnPc = "call"
    /\ fnName' = "get_image"
    /\ fnOut' = get_image([href |-> Str(fnUrl), post_title |-> <<>>,
                           comments |-> None, web |-> fnWeb])
    /\ fnPc' = "done"
    /\ UNCHANGED <<fnUrl, fnDomain, fnWeb>>

NextImage ==
    \/ CallGetImageFilename /\ UNCHANGED <<crawlVars, dlVars>>
    \/ CallResolver /\ UNCHANGED <<crawlVars, dlVars>>
    \/ CallGetImage /\ UNCHANGED <<crawlVars, dlVars>>

SpecImage == InitImage /\ [][NextImage]_vars

(***************************************************************************)
(* download_files(files, destination, verbose).  The store is the set of   *)
(* post URLs whose row has Downloaded set.  The function changes the       *)
(* working directory and then evaluates clean_path(path): no name `path`   *)
(* is bound in the function or in its module, so the call raises NameError *)
(* before the database is opened and before the loop over files begins.    *)
(***************************************************************************)
PostUrls == {<<"p1">>, <<"p2">>}
FileRecords ==
    {[url |-> u, image |-> i] :
        u \in PostUrls,
        i \in {[image_url |-> None, filename |-> None],
               [image_url |-> Str(<<"a", "/", "a", ".png">>),
                filename |-> Str(<<"a", ".png">>)]}}

InitDownload ==
    /\ dlPc = "call" /\ files \in SeqsUpTo(FileRecords, MaxFiles) /\ filesIn = <<>>
    /\ store \in SUBSET PostUrls /\ storeIn = {} /\ transfers = <<>>
    /\ cwd = "origin" /\ dlExc = ""
    /\ crawlIdle /\ fnIdle

\* current_directory = os.getcwd(); os.chdir(destination)
DownloadChdir ==
    /\ dlPc = "call"
    /\ filesIn' = files
    /\ storeIn' = store
    /\ cwd' = "destination"
    /\ dlPc' = "db_path"
    /\ UNCHANGED <<files, store, transfers, dlExc>>

\* db_path = ''.join([clean_path(path), '/db.sqlite']): NameError
DownloadDbPath ==
    /\ dlPc = "db_path"
    /\ dlExc' = "NameError"
    /\ dlPc' = "raised"
    /\ UNCHANGED <<files, filesIn, store, storeIn, transfers, cwd>>

NextDownload ==
    \/ DownloadChdir /\ UNCHANGED <<crawlVars, fnVars>>
    \/ DownloadDbPath /\ UNCHANGED <<crawlVars, fnVars>>

SpecDownload == InitDownload /\ [][NextDownload]_vars

(***************************************************************************)
(* The claims.                                                             *)
(***************************************************************************)
CrawlEnded == pc \in {"returned", "raised"}
LastDoc == docs[Len(docs)]
HasLink(button) == button.span /\ button.href # <<>>

\* C1: get_all_posts(url, pages) with pages = N > 0 fetches at most N listing
\* pages, also when the N-th page fetched still carries a next-page link.
C1_AtMostNPages == pages > 0 => Len(fetched) <= pages

C1_Witness ==
    /\ pc = "returned" /\ pages > 1 /\ Len(fetched) = pages /\ Len(docs) = pages
    /\ HasLink(LastDoc.next_button) /\ Truthy(url)

\* C2: with pages = 0 the crawl ends exactly at the first fetched page that
\* has no next-button marker: once the crawl is over, the page fetched last
\* has no marker (no page with a marker ends the crawl).
C2_StopsExactlyAtMissingMarker ==
    (pages = 0 /\ CrawlEnded /\ docs # <<>>) => ~LastDoc.next_button.span

\* the (page, container) positions of the fetched documents, in visit order
\* and, within a page, in document order
RECURSIVE Positions(_, _)
Positions(ds, i) ==
    IF i > Len(ds) THEN <<>>
    ELSE [j \in 1..Len(ds[i].things) |-> <<i, j>>] \o Positions(ds, i + 1)

RecordIsOf(rec, i, j) ==
    LET div == docs[i].things[j]
    IN /\ IsStr(div.href) /\ IsStr(div.comments)
       /\ rec.url = div.href.val
       /\ rec.post_title = div.post_title
       /\ rec.link_to_comments = div.comments.val
       /\ rec.on_page = fetched[i].val
       /\ rec.html_status_token = 0

\* C3: the sequence get_all_posts returns is the concatenation, in visit
\* order, of the records of the fetched pages: one record per post container,
\* in document order, with on_page the URL of its page and html_status_token
\* 0; none dropped, duplicated or reordered.
C3_ConcatenationInVisitOrder ==
    pc = "returned" =>
        LET pos == Positions(docs, 1)
        IN /\ Len(images) = Len(pos)
           /\ \A k \in 1..Len(pos) : RecordIsOf(images[k], pos[k][1], pos[k][2])

\* the listing of two pages, 3 posts then 1 post, crawled with pages = 0:
\* 4 records, 2 of them with a resolved media reference
C3_Witness ==
    /\ pc = "returned" /\ pages = 0 /\ Len(docs) = 2
    /\ docs[1].things = <<DivPng, DivUnknown, DivGfycat>> /\ Len(docs[2].things) = 1
    /\ Len(images) = 4
    /\ Cardinality({k \in 1..Len(images) : IsStr(images[k].image.image_url)}) = 2

MissesComments(doc) == \E j \in 1..Len(doc.things) : IsNone(doc.things[j].comments)
OnlyCommentsMissing(doc) ==
    /\ MissesComments(doc)
    /\ \A j \in 1..Len(doc.things) : ~IsRaised(get_image(doc.things[j]))
WithComments(things) == SelectSeq(things, LAMBDA div : ~IsNone(div.comments))
Suffix(q, n) == SubSeq(q, Len(q) - n + 1, Len(q))

\* C4: a container with no comments link drops only its own record: the
\* page's extraction does not fail, the crawl is not aborted, and the
\* records of the page's other containers are in the output.
C4_MalformedContainerDropped ==
    (pc \in {"loop", "returned", "raised"} /\ docs # <<>> /\ exc # "WebDriverException"
        /\ OnlyCommentsMissing(LastDoc)) =>
        /\ pc # "raised"
        /\ LET rest == WithComments(LastDoc.things)
           IN /\ Len(images) >= Len(rest)
              /\ \A k \in 1..Len(rest) :
                    Suffix(images, Len(rest))[k].post_title = rest[k].post_title

DownloadEnded == dlPc \in {"returned", "raised"}
Transferred(u) == \E k \in 1..Len(transfers) : transfers[k] = u

\* C5: a download_files run never transfers a post that the store marks
\* downloaded, and transfers and then marks every post with a resolved media
\* URL that the store does not mark yet.
C5_ResumableDownload ==
    DownloadEnded =>
        \A k \in 1..Len(filesIn) :
            LET f == filesIn[k]
            IN /\ f.url \in storeIn => ~Transferred(f.url)
               /\ (Truthy(f.image.image_url) /\ f.url \notin storeIn) =>
                     (Transferred(f.url) /\ f.url \in store)

FirstEnd(candidate, ext) ==
    CHOOSE j \in 1..Len(candidate) :
        candidate[j] = ext /\ \A k \in 1..(j - 1) : candidate[k] # ext

\* C6: for a URL with a known extension get_image_filename returns the
\* prefix of the last '/'-separated segment up to and including the first
\* occurrence of the matched extension; for a URL with none it returns None.
C6_FilenamePrefixOrNone ==
    (fnPc = "done" /\ fnName = "get_image_filename") =>
        LET ext == known_file_format(fnUrl)
            candidate == LastSegment(fnUrl)
        IN IF IsNone(ext) THEN IsNone(fnOut)
           ELSE Contains(candidate, ext.val[1]) =>
                   /\ IsStr(fnOut)
                   /\ fnOut.val = SubSeq(candidate, 1, FirstEnd(candidate, ext.val[1]))

InDomains(tag) == IsStr(tag) /\ \E i \in 1..Len(DOMAINS) : tag.val = <<DOMAINS[i]>>

\* C7: get_image_link_from_allowed_domain returns a URL or None for every
\* (url, domain tag) pair and never raises; an unknown tag yields None.
C7_ResolverTotal ==
    (fnPc = "done" /\ fnName = "get_image_link_from_allowed_domain") =>
        /\ ~IsRaised(fnOut)
        /\ ~InDomains(fnDomain) => IsNone(fnOut)

\* C8: get_image builds a media reference for every post, in which filename
\* is present iff image_url is present and contains a known extension, and
\* in which otherwise both are absent.
C8_FilenameIffKnownExtension ==
    (fnPc = "done" /\ fnName = "get_image") =>
        /\ fnOut.kind = "dict"
        /\ LET m == fnOut.val
               known == IsStr(m.image_url) /\ ~IsNone(known_file_format(m.image_url.val))
           IN /\ IsStr(m.filename) <=> known
              /\ ~known => (IsNone(m.image_url) /\ IsNone(m.filename))

\* C9: on every exit of get_all_posts, by return or by an exception, the
\* driver has been closed, exactly once, and it is never used once closed.
C9_DriverClosedOnEveryExit ==
    /\ CrawlEnded => (driver = "closed" /\ closes = 1)
    /\ ~usedClosed

\* C10: with a negative pages no page is fetched and the result is empty;
\* a page is fetched only when pages >= 0, and then the first one always is.
C10_NegativeFetchesNothing ==
    /\ pages < 0 => (fetched = <<>> /\ images = <<>>)
    /\ Len(fetched) >= 1 => pages >= 0
    /\ (pc = "returned" /\ pages >= 0) => Len(fetched) >= 1

C10_Witness ==
    /\ pc = "returned" /\ argP = IntArg(0 - 1) /\ pages < 0
    /\ fetched = <<>> /\ images = <<>> /\ driver = "closed"

====
